---- MODULE Spec2Model ----
(***************************************************************************)
(* A model of the rating backend of the Dictionary of Obscure Sorrows      *)
(* browser (src/backend): the words table, the ratings table, the identity *)
(* cookie and the HTTP handlers of main.py, with the catalog load of       *)
(* migrate_data.py.                                                        *)
(*                                                                         *)
(* Tables.  words is the words table in id order: Word.id is an integer    *)
(* primary key that the store assigns as max(id)+1 and no code path        *)
(* deletes a word, so the ids are 1..Len(words) and the row of id i is     *)
(* words[i].  ratings is the ratings table as a bag of rows                *)
(* [user_id, word_id, rating_type, rating]: Rating.id (autoincrement) is   *)
(* read by no handler, so two rows that differ only in their id are two    *)
(* copies in the bag, and Query.first() without ORDER BY is a choice among *)
(* the matching rows.                                                      *)
(*                                                                         *)
(* Python's None is the string PyNone, distinct from the cookie text       *)
(* "None"; an Optional[int] is <<>> (None) or <<v>>.                       *)
(***************************************************************************)
EXTENDS Integers, Sequences, FiniteSets, Bags, TLC

\* ---------------------------------------------------------------- bounds
\* distinct display names the catalog source draws from
MaxWords == 2
\* uuid4 tokens the service mints
MaxMint == 1
\* entries in one catalog source (dictionary.json)
MaxSrcLen == 3

\* ---------------------------------------------------------------- inputs
PyNone == "<None>"

NameOf == <<"a", "b", "c", "d">>
Names == {NameOf[i] : i \in 1..MaxWords}
Defs == {"d1", "d2"}

\* cookie values a client brings that the service did not mint
Tokens == {"u1"}
MintTokens == <<"m1", "m2", "m3">>
Minted(n) == {MintTokens[i] : i \in 1..n}
AllUsers == Tokens \cup Minted(MaxMint)

\* the user_id cookie of a request: absent, empty, the text "None", or a token
Cookies(n) == {PyNone, "", "None"} \cup Tokens \cup Minted(n)

\* word ids a request names: the ids the catalog can hold, and one beyond
WordIdInputs == 1..(MaxWords + 1)
\* the "rating" field of a request body
RatingInputs == {-1, 0, 1, 2, 4}
\* the "rating_type" a client sends (body field or query parameter)
RatingTypeInputs == {"overall", "name", "bogus"}
\* database.py: Rating.rating_type, 'overall', 'relatability', 'usefulness', 'name'
RatingTypes == {"overall", "relatability", "usefulness", "name"}
\* the column default of Rating.rating_type
DefaultRatingType == "overall"

\* an entry of dictionary.json; one entry has an empty "Word"
SourceEntries == [Word : Names, Definition : Defs] \cup {[Word |-> "", Definition |-> "d1"]}
RECURSIVE SeqsUpTo(_, _)
SeqsUpTo(S, n) ==
    IF n = 0 THEN {<<>>}
    ELSE LET shorter == SeqsUpTo(S, n - 1)
         IN  shorter \cup {Append(s, e) : s \in {t \in shorter : Len(t) = n - 1}, e \in S}
\* the contents of dictionary.json
Sources == SeqsUpTo(SourceEntries, MaxSrcLen) \ {<<>>}

\* worker processes that serve requests on the same database
NumProcs == 2
Procs == 1..NumProcs

\* words, ratings: the two tables; minted: the uuid4 tokens generated so far;
\* req, resp: the request being served and its response, blank between two
\* requests; pc, loc: for each worker process serving a request step by step,
\* its position in rate_word and the handler's local variables; started: the
\* import of main.py has run its startup check and the app takes requests;
\* schema: "new" when the ratings table has the rating_type column
VARIABLES words, ratings, minted, req, resp, pc, loc, started, schema

vars == <<words, ratings, minted, req, resp, pc, loc, started, schema>>

\* ------------------------------------------------------------- ratings table
\* the number of rows of the table B that are in the set S, copies counted
SumCopies(B, S) ==
    BagCardinality([r \in S \cap BagToSet(B) |-> CopiesIn(r, B)])

Rows(B) == BagToSet(B)
One(r) == SetToBag({r})

\* db.query(Rating).filter(Rating.user_id == user_id, Rating.word_id == word_id)
UserWordRows(B, user_id, word_id) ==
    {r \in Rows(B) : r.user_id = user_id /\ r.word_id = word_id}

\* a handler that does not look the word up
WordExists_Unchecked(ws, word_id) == TRUE

\* db.query(Word).filter(Word.id == word_id).first() is not None
WordExists(ws, word_id) == word_id \in 1..Len(ws)

\* ------------------------------------------------------------- identity
\* the resolver without its test for the text "None"
get_or_create_user_id_KeepsNoneText(user_id) ==
    IF user_id = PyNone \/ user_id = "" THEN PyNone ELSE user_id

get_or_create_user_id(user_id) ==
    IF user_id = PyNone \/ user_id = "" \/ user_id = "None" THEN PyNone ELSE user_id

\* str(uuid.uuid4()): the n-th token minted, different from every token in use
Uuid4(n) == MintTokens[n]

\* ------------------------------------------------------------- statistics
\* round(x / total * 100, 1) in tenths of a percent (exact for total < 16,
\* where no quotient falls on a rounding tie)
Percentage(x, total) == IF total > 0 THEN (2000 * x + total) \div (2 * total) ELSE 0

\* the statistics with the total taken as thumbs up plus thumbs down
get_rating_stats_TotalOfVotes(B, word_id) ==
    LET rows        == {r \in Rows(B) : r.word_id = word_id}
        thumbs_down == SumCopies(B, {r \in rows : r.rating = -1})
        hyphen      == SumCopies(B, {r \in rows : r.rating = 0})
        thumbs_up   == SumCopies(B, {r \in rows : r.rating = 1})
        total       == thumbs_up + thumbs_down
    IN  [thumbs_down |-> thumbs_down,
         hyphen      |-> hyphen,
         thumbs_up   |-> thumbs_up,
         total       |-> total,
         percentages |-> [thumbs_down |-> 0, hyphen |-> 0, thumbs_up |-> 0]]

get_rating_stats(B, word_id) ==
    LET rows        == {r \in Rows(B) : r.word_id = word_id}
        thumbs_down == SumCopies(B, {r \in rows : r.rating = -1})
        hyphen      == SumCopies(B, {r \in rows : r.rating = 0})
        thumbs_up   == SumCopies(B, {r \in rows : r.rating = 1})
        total       == SumCopies(B, rows)
    IN  [thumbs_down |-> thumbs_down,
         hyphen      |-> hyphen,
         thumbs_up   |-> thumbs_up,
         total       |-> total,
         percentages |-> [thumbs_down |-> Percentage(thumbs_down, total),
                          hyphen      |-> Percentage(hyphen, total),
                          thumbs_up   |-> Percentage(thumbs_up, total)]]

NoStats == get_rating_stats(EmptyBag, 0)

\* ------------------------------------------------------------- requests
\* op names the endpoint; the fields an endpoint does not take are blank
Request(op, cookie, word_id, rating, rating_type, word_identifier, words_data) ==
    [op |-> op, user_id |-> cookie, word_id |-> word_id, rating |-> rating,
     rating_type |-> rating_type, word_identifier |-> word_identifier,
     words_data |-> words_data]

NoRequest == Request("none", PyNone, 0, 0, "", "", <<>>)

\* ------------------------------------------------------------- responses
\* set_cookie is the user_id cookie the response sets, or PyNone, and id the
\* word the body is about (0: none)
Response(op, status, detail, set_cookie, id, user_rating, stats) ==
    [op |-> op, status |-> status, detail |-> detail, set_cookie |-> set_cookie,
     id |-> id, user_rating |-> user_rating, stats |-> stats]

\* raise HTTPException: the error response is built from the exception alone,
\* so a cookie the handler set on its response parameter is not sent
HTTPException(op, status, detail) ==
    Response(op, status, detail, PyNone, 0, <<>>, NoStats)

\* ------------------------------------------------------------- POST /api/rate
\* "Rating must be -1, 0, or 1"
ValidRating(rating) == rating \in {-1, 0, 1}

\* the row existing_rating of a handler that found none
NoRow == [user_id |-> PyNone, word_id |-> 0, rating_type |-> PyNone, rating |-> 0]

\* db.query(Rating).filter(user_id, word_id).first(): a matching row, or None
FirstRating(B, user_id, word_id) ==
    LET found == UserWordRows(B, user_id, word_id)
    IN  IF found = {} THEN {NoRow} ELSE found

\* the rows the UPDATE or DELETE of existing_rating reaches: the row is named by
\* its primary key, so it is the row read, with the rating another request may
\* have given it since
SameRow(B, existing_rating) ==
    IF existing_rating \in Rows(B) THEN {existing_rating}
    ELSE {r \in Rows(B) : /\ r.user_id = existing_rating.user_id
                          /\ r.word_id = existing_rating.word_id
                          /\ r.rating_type = existing_rating.rating_type}

\* if existing_rating: existing_rating.rating = rating; db.commit()
\* else: db.add(Rating(user_id, word_id, rating)); db.commit()
WriteRating(B, existing_rating, user_id, word_id, rating) ==
    IF existing_rating # NoRow
    THEN {(B (-) One(r)) (+) One([r EXCEPT !.rating = rating]) : r \in SameRow(B, existing_rating)}
    ELSE {B (+) One([user_id |-> user_id, word_id |-> word_id,
                     rating_type |-> DefaultRatingType, rating |-> rating])}

\* rate_word without its look for an existing rating: every rate adds a row
UpsertRating_AlwaysAdds(B, user_id, word_id, rating) ==
    WriteRating(B, NoRow, user_id, word_id, rating)

\* the read and the write of rate_word within one request
UpsertRating(B, user_id, word_id, rating) ==
    UNION {WriteRating(B, e, user_id, word_id, rating) : e \in FirstRating(B, user_id, word_id)}

\* RatingRequest has the fields word_id and rating; a rating_type in the body
\* is an extra field, which the request model drops
rate_word(cookie, word_id, rating, rating_type) ==
    LET resolved == get_or_create_user_id(cookie)
        mint     == resolved = PyNone
        user_id  == IF mint THEN Uuid4(minted + 1) ELSE resolved
        set      == IF mint THEN user_id ELSE PyNone
    IN  /\ mint => minted < MaxMint
        /\ minted' = IF mint THEN minted + 1 ELSE minted
        /\ UNCHANGED words
        /\ IF ~WordExists(words, word_id)
           THEN /\ resp' = HTTPException("rate", 404, "Word not found")
                /\ UNCHANGED ratings
           ELSE IF ~ValidRating(rating)
           THEN /\ resp' = HTTPException("rate", 400, "Rating must be -1, 0, or 1")
                /\ UNCHANGED ratings
           ELSE /\ ratings' \in UpsertRating(ratings, user_id, word_id, rating)
                /\ resp' = Response("rate", 200, "Rating saved", set, word_id, <<>>,
                                    get_rating_stats(ratings', word_id))

\* ------------------------------------------------------------- DELETE /api/rate/{word_id}
\* if existing_rating: db.delete(existing_rating); db.commit()
DeleteRating(B, user_id, word_id) ==
    UNION {IF e = NoRow THEN {B} ELSE {B (-) One(e)} : e \in FirstRating(B, user_id, word_id)}

\* the handler declares no rating_type parameter: the query parameter is not read
unrate_word(cookie, word_id, rating_type) ==
    LET user_id == get_or_create_user_id(cookie)
    IN  /\ UNCHANGED <<words, minted>>
        /\ IF user_id = PyNone
           THEN /\ resp' = HTTPException("unrate", 401, "User not authenticated")
                /\ UNCHANGED ratings
           ELSE IF ~WordExists(words, word_id)
           THEN /\ resp' = HTTPException("unrate", 404, "Word not found")
                /\ UNCHANGED ratings
           ELSE /\ ratings' \in DeleteRating(ratings, user_id, word_id)
                /\ resp' = Response("unrate", 200, "Rating removed", PyNone, word_id, <<>>,
                                    get_rating_stats(ratings', word_id))

\* ------------------------------------------------------------- GET /api/word/{word_identifier}
DigitStr == <<"1", "2", "3", "4", "5", "6", "7", "8", "9">>
IsDigit(s) == \E n \in 1..Len(DigitStr) : DigitStr[n] = s
ToInt(s) == CHOOSE n \in 1..Len(DigitStr) : DigitStr[n] = s
WordIdentifiers == {DigitStr[i] : i \in WordIdInputs} \cup Names

\* the ids of the rows get_word can return: by id first, by name second
LookupWord(ws, word_identifier) ==
    IF IsDigit(word_identifier) /\ WordExists(ws, ToInt(word_identifier))
    THEN {ToInt(word_identifier)}
    ELSE {i \in 1..Len(ws) : ws[i].word = word_identifier}

\* user_rating.rating if user_rating else None, user_rating the first row found
UserRating(B, user_id, word_id) ==
    LET found == UserWordRows(B, user_id, word_id)
    IN  IF found = {} THEN {<<>>} ELSE {<<r.rating>> : r \in found}

get_word(cookie, word_identifier) ==
    LET resolved == get_or_create_user_id(cookie)
        mint     == resolved = PyNone
        user_id  == IF mint THEN Uuid4(minted + 1) ELSE resolved
        set      == IF mint THEN user_id ELSE PyNone
        found    == LookupWord(words, word_identifier)
    IN  /\ mint => minted < MaxMint
        /\ minted' = IF mint THEN minted + 1 ELSE minted
        /\ UNCHANGED <<words, ratings>>
        /\ IF found = {}
           THEN resp' = HTTPException("word", 404, "Word not found")
           ELSE \E id \in found : \E ur \in UserRating(ratings, user_id, id) :
                    resp' = Response("word", 200, "", set, id, ur,
                                     get_rating_stats(ratings, id))

\* ------------------------------------------------------------- random word
\* the rows of the ratings table with Rating.user_id == user_id
UserRows(B, user_id) == {r \in Rows(B) : r.user_id = user_id}

\* a choice among all the words, rated or not
RandomWordIds_Any(ws, rated_word_ids) == 1..Len(ws)

\* the ids query.order_by(func.random()).first() can give: a word outside
\* rated_word_ids, or when there is none any word; {} when neither gives one
RandomWordIds(ws, rated_word_ids) ==
    LET unrated == {i \in 1..Len(ws) : i \notin rated_word_ids}
    IN  IF unrated # {} THEN unrated ELSE 1..Len(ws)

get_random_word(cookie) ==
    LET resolved == get_or_create_user_id(cookie)
        mint     == resolved = PyNone
        user_id  == IF mint THEN Uuid4(minted + 1) ELSE resolved
        set      == IF mint THEN user_id ELSE PyNone
        rated_word_ids == {r.word_id : r \in UserRows(ratings, user_id)}
        found    == RandomWordIds(words, rated_word_ids)
    IN  /\ mint => minted < MaxMint
        /\ minted' = IF mint THEN minted + 1 ELSE minted
        /\ UNCHANGED <<words, ratings>>
        /\ IF found = {}
           THEN resp' = HTTPException("random", 404, "No words found")
           ELSE \E id \in found : \E ur \in UserRating(ratings, user_id, id) :
                    resp' = Response("random", 200, "", set, id, ur,
                                     get_rating_stats(ratings, id))

\* ------------------------------------------------------------- rated words
\* [r.word_id for r in query.all()]: one element for each row of the user, in
\* the order the database returns the rows
RatedIdLists(B, user_id) ==
    LET mine == UserRows(B, user_id)
        n    == SumCopies(B, mine)
        ids  == {r.word_id : r \in mine}
    IN  {l \in [1..n -> ids] :
            \A w \in ids : Cardinality({k \in 1..n : l[k] = w})
                               = SumCopies(B, {r \in mine : r.word_id = w})}

\* the response of /api/rated-words
RatedWordsResponse(set_cookie, rated_ids) ==
    [op |-> "rated", status |-> 200, detail |-> "", set_cookie |-> set_cookie,
     rated_word_ids |-> rated_ids]

get_rated_words(cookie) ==
    LET resolved == get_or_create_user_id(cookie)
        mint     == resolved = PyNone
        user_id  == IF mint THEN Uuid4(minted + 1) ELSE resolved
        set      == IF mint THEN user_id ELSE PyNone
    IN  /\ mint => minted < MaxMint
        /\ minted' = IF mint THEN minted + 1 ELSE minted
        /\ UNCHANGED <<words, ratings>>
        /\ \E rated_ids \in RatedIdLists(ratings, user_id) :
              resp' = RatedWordsResponse(set, rated_ids)

\* ------------------------------------------------------------- next / previous
\* current_id of /api/next-word-id and /api/prev-word-id: any integer, here
\* from one below the first id to one above the last the catalog can hold
CurrentIdInputs == 0..(MaxWords + 1)

Min(S) == CHOOSE x \in S : \A y \in S : x <= y
Max(S) == CHOOSE x \in S : \A y \in S : x >= y

\* a successor that takes the current id for its own successor
next_word_id_FromCurrent(ids, current_id) ==
    LET after == {i \in ids : i >= current_id}
    IN  IF after # {} THEN {Min(after)}
        ELSE IF ids # {} THEN {Min(ids)}
        ELSE {}

\* query(Word).filter(Word.id > current_id).order_by(Word.id).first(), else
\* query(Word).order_by(Word.id).first(): the id found, or no id; ids are the
\* ids of the words table
next_word_id(ids, current_id) ==
    LET after == {i \in ids : i > current_id}
    IN  IF after # {} THEN {Min(after)}
        ELSE IF ids # {} THEN {Min(ids)}
        ELSE {}

\* a predecessor that wraps to the first word
prev_word_id_WrapsToFirst(ids, current_id) ==
    LET before == {i \in ids : i < current_id}
    IN  IF before # {} THEN {Max(before)}
        ELSE IF ids # {} THEN {Min(ids)}
        ELSE {}

\* query(Word).filter(Word.id < current_id).order_by(Word.id.desc()).first(),
\* else query(Word).order_by(Word.id.desc()).first()
prev_word_id(ids, current_id) ==
    LET before == {i \in ids : i < current_id}
    IN  IF before # {} THEN {Max(before)}
        ELSE IF ids # {} THEN {Max(ids)}
        ELSE {}

\* the ids of the rows of the words table
WordIds(ws) == 1..Len(ws)

\* the part the two handlers share: the cookie, then the word found or 404
Navigate(op, cookie, found) ==
    LET resolved == get_or_create_user_id(cookie)
        mint     == resolved = PyNone
        user_id  == IF mint THEN Uuid4(minted + 1) ELSE resolved
        set      == IF mint THEN user_id ELSE PyNone
    IN  /\ mint => minted < MaxMint
        /\ minted' = IF mint THEN minted + 1 ELSE minted
        /\ UNCHANGED <<words, ratings>>
        /\ IF found = {}
           THEN resp' = HTTPException(op, 404, "No words found")
           ELSE \E id \in found : resp' = Response(op, 200, "", set, id, <<>>, NoStats)

get_next_word_id(cookie, current_id) ==
    Navigate("next", cookie, next_word_id(WordIds(words), current_id))

get_prev_word_id(cookie, current_id) ==
    Navigate("prev", cookie, prev_word_id(WordIds(words), current_id))

\* ------------------------------------------------------------- GET /api/leaderboard
\* prior_weight = 10
prior_weight == 10
\* bayesian_score = -1000.0 for a word without ratings
UnratedScore == -1000

\* A score is the fraction num / den with den > 0.  The handler computes it in
\* floating point; for the tallies within the bounds the floats order as the
\* fractions do.
\* With net = thumbs_up - thumbs_down, N = total_all_net, T = total_all_ratings:
\*   (total * (net / total) + prior_weight * (N / T)) / (total + prior_weight)
\*     = (net * T + prior_weight * N) / (T * (total + prior_weight))
\* a scoring that gives a word without ratings the score 0
bayesian_score_NoSentinel(stats, total_all_net, total_all_ratings) ==
    IF stats.total > 0
    THEN [num |-> (stats.thumbs_up - stats.thumbs_down) * total_all_ratings
                     + prior_weight * total_all_net,
          den |-> total_all_ratings * (stats.total + prior_weight)]
    ELSE [num |-> 0, den |-> 1]

bayesian_score(stats, total_all_net, total_all_ratings) ==
    IF stats.total > 0
    THEN [num |-> (stats.thumbs_up - stats.thumbs_down) * total_all_ratings
                     + prior_weight * total_all_net,
          den |-> total_all_ratings * (stats.total + prior_weight)]
    ELSE [num |-> UnratedScore, den |-> 1]

ScoreLess(a, b) == a.num * b.den < b.num * a.den

RECURSIVE SumOver(_, _)
SumOver(f, S) ==
    IF S = {} THEN 0
    ELSE LET i == CHOOSE i \in S : TRUE IN f[i] + SumOver(f, S \ {i})

LeaderboardEntry(word_id, word, stats) ==
    [word_id |-> word_id, word |-> word,
     score |-> stats.thumbs_up - stats.thumbs_down,
     thumbs_up |-> stats.thumbs_up, thumbs_down |-> stats.thumbs_down,
     hyphen |-> stats.hyphen, total_ratings |-> stats.total]

\* a list that holds the words that have a rating
LeaderboardRows_RatedOnly(ws, B) ==
    LET all_stats         == [i \in 1..Len(ws) |-> get_rating_stats(B, i)]
        total_all_ratings == SumOver([i \in 1..Len(ws) |-> all_stats[i].total], 1..Len(ws))
        total_all_net     == SumOver([i \in 1..Len(ws) |->
                                        all_stats[i].thumbs_up - all_stats[i].thumbs_down],
                                     1..Len(ws))
        rows == [i \in 1..Len(ws) |->
                   [bayesian_score |-> bayesian_score(all_stats[i], total_all_net,
                                                      total_all_ratings),
                    entry |-> LeaderboardEntry(i, ws[i].word, all_stats[i])]]
        Rated(row) == row.entry.total_ratings > 0
    IN  SelectSeq(rows, Rated)

\* the list before the sort: one (bayesian_score, entry) per row of
\* query(Word).all(), which SQLite returns in id order
LeaderboardRows(ws, B) ==
    LET all_stats         == [i \in 1..Len(ws) |-> get_rating_stats(B, i)]
        total_all_ratings == SumOver([i \in 1..Len(ws) |-> all_stats[i].total], 1..Len(ws))
        total_all_net     == SumOver([i \in 1..Len(ws) |->
                                        all_stats[i].thumbs_up - all_stats[i].thumbs_down],
                                     1..Len(ws))
    IN  [i \in 1..Len(ws) |->
           [bayesian_score |-> bayesian_score(all_stats[i], total_all_net, total_all_ratings),
            entry |-> LeaderboardEntry(i, ws[i].word, all_stats[i])]]

\* the sort key (x[0], x[1].total_ratings) of x is greater than that of y
KeyGreater(x, y) ==
    \/ ScoreLess(y.bayesian_score, x.bayesian_score)
    \/ /\ ~ScoreLess(x.bayesian_score, y.bayesian_score)
       /\ x.entry.total_ratings > y.entry.total_ratings

Orders(n) == {f \in [1..n -> 1..n] : \A i, j \in 1..n : f[i] = f[j] => i = j}

\* a sort that may leave rows of equal keys in any order
SortLeaderboard_Unstable(rows) ==
    LET n == Len(rows)
    IN  {[p \in 1..n |-> rows[f[p]].entry] :
            f \in {g \in Orders(n) :
                     \A p, q \in 1..n : p < q => ~KeyGreater(rows[g[q]], rows[g[p]])}}

\* leaderboard.sort(key=..., reverse=True), then the entries: the orders the
\* sort can leave.  The sort is stable, also with reverse=True: rows of equal
\* keys keep the order they had in the list.
SortLeaderboard(rows) ==
    LET n == Len(rows)
    IN  {[p \in 1..n |-> rows[f[p]].entry] :
            f \in {g \in Orders(n) :
                     \A p, q \in 1..n : p < q =>
                        \/ KeyGreater(rows[g[p]], rows[g[q]])
                        \/ /\ ~KeyGreater(rows[g[q]], rows[g[p]])
                           /\ g[p] < g[q]}}

\* the response of the leaderboard: the list of entries
LeaderboardResponse(entries) ==
    [op |-> "leaderboard", status |-> 200, detail |-> "", set_cookie |-> PyNone,
     entries |-> entries]

get_leaderboard ==
    /\ \E entries \in SortLeaderboard(LeaderboardRows(words, ratings)) :
          resp' = LeaderboardResponse(entries)
    /\ UNCHANGED <<words, ratings, minted>>

\* ------------------------------------------------------------- migrate_data
\* The session is made with autoflush=False: the query by name sees the rows
\* committed before the load, not the rows the load has added so far.  The
\* commit writes the added rows; words.word is unique, so a name added twice
\* makes the commit fail, and the load rolls back.
RECURSIVE SyncWords(_, _, _, _)
SyncWords(committed, updated, added, src) ==
    IF src = <<>> THEN [updated |-> updated, added |-> added]
    ELSE LET word_data == Head(src)
             existing  == {i \in 1..Len(committed) : committed[i].word = word_data.Word}
         IN  IF word_data.Word = ""
             THEN SyncWords(committed, updated, added, Tail(src))
             ELSE IF existing # {}
             THEN LET i == CHOOSE i \in existing : TRUE
                  IN  SyncWords(committed,
                                [updated EXCEPT ![i].definition = word_data.Definition],
                                added, Tail(src))
             ELSE SyncWords(committed, updated,
                            Append(added, [word |-> word_data.Word,
                                           definition |-> word_data.Definition]),
                            Tail(src))

UniqueNames(rows) == \A i, j \in 1..Len(rows) : rows[i].word = rows[j].word => i = j

\* a load that empties the table and inserts the source entries
migrate_data_Replaces(ws, words_data) ==
    [ok |-> TRUE,
     words |-> [k \in 1..Len(words_data) |->
                  [word |-> words_data[k].Word, definition |-> words_data[k].Definition]]]

\* a load that also deletes the entries the source does not name
migrate_data_Prunes(ws, words_data) ==
    LET synced == SyncWords(ws, ws, <<>>, words_data)
        after  == synced.updated \o synced.added
        Named(w) == \E k \in 1..Len(words_data) : words_data[k].Word = w.word
    IN  IF UniqueNames(after) THEN [ok |-> TRUE, words |-> SelectSeq(after, Named)]
        ELSE [ok |-> FALSE, words |-> ws]

\* a load that commits entry by entry: when it fails, the updates made and
\* the first row of each added name stay
migrate_data_CommitsEach(ws, words_data) ==
    LET synced == SyncWords(ws, ws, <<>>, words_data)
        after  == synced.updated \o synced.added
        First(k) == \A j \in 1..(k - 1) : after[j].word # after[k].word
        kept   == {k \in 1..Len(after) : First(k)}
        Nth(n) == CHOOSE k \in kept : Cardinality({j \in kept : j < k}) = n - 1
    IN  IF UniqueNames(after) THEN [ok |-> TRUE, words |-> after]
        ELSE [ok |-> FALSE, words |-> [n \in 1..Cardinality(kept) |-> after[Nth(n)]]]

\* [ok, words]: the table after db.commit(), or after db.rollback()
migrate_data(ws, words_data) ==
    LET synced == SyncWords(ws, ws, <<>>, words_data)
        after  == synced.updated \o synced.added
    IN  IF UniqueNames(after) THEN [ok |-> TRUE, words |-> after]
        ELSE [ok |-> FALSE, words |-> ws]

Reload(words_data) ==
    LET done == migrate_data(words, words_data)
    IN  /\ words' = done.words
        /\ resp' = Response("reload", IF done.ok THEN 0 ELSE 1, "", PyNone, 0, <<>>, NoStats)
        /\ UNCHANGED <<ratings, minted>>

\* ------------------------------------------------------------- startup
\* what dictionary.json holds when main.py is imported; <<>>: the file is
\* missing (migrate_data returns before it opens a session) or lists nothing
StartupSources == Sources \cup {<<>>}

\* a startup check that runs the load whatever the table holds
check_and_migrate_data_AlwaysLoads(ws, words_data) ==
    LET done == migrate_data(ws, words_data)
    IN  [ran |-> TRUE, ok |-> done.ok, words |-> done.words]

\* [ran, ok, words]: whether the load was run, whether it returned or raised
\* (the except clause of the check prints what it raised), the table after
check_and_migrate_data(ws, words_data) ==
    LET word_count == Len(ws)
    IN  IF word_count = 0
        THEN LET done == migrate_data(ws, words_data)
             IN  [ran |-> TRUE, ok |-> done.ok, words |-> done.words]
        ELSE [ran |-> FALSE, ok |-> TRUE, words |-> ws]

\* statuses of the "startup" response: what the check printed
Loaded == 0
LoadFailed == 1
LoadSkipped == 2

\* the module-level call check_and_migrate_data() and the lines after it
Startup(words_data) ==
    LET done == check_and_migrate_data(words, words_data)
    IN  /\ ~started
        /\ words' = done.words
        /\ started' = TRUE
        /\ resp' = Response("startup",
                            IF ~done.ran THEN LoadSkipped
                            ELSE IF done.ok THEN Loaded ELSE LoadFailed,
                            "", PyNone, 0, <<>>, NoStats)
        /\ UNCHANGED <<ratings, minted, schema>>

\* ------------------------------------------------------------- migrate_ratings
\* New schema has rating_type column
check_schema_version_NeverMigrated(sch) == FALSE

check_schema_version(sch) == sch = "new"

\* the conversion written with if, if, if: the 1 star of a -1 is taken for a 1
new_rating_Sequential(rating) ==
    IF rating = -1 \/ rating = 1 THEN 5 ELSE IF rating = 0 THEN 3 ELSE rating

\* the stars of a rating of the three-valued scale (-1 -> 1 star, 0 -> 3
\* stars, 1 -> 5 stars); another value is left as it is
new_rating(rating) ==
    IF rating = -1 THEN 1
    ELSE IF rating = 0 THEN 3
    ELSE IF rating = 1 THEN 5
    ELSE rating

\* the table with each row r replaced by f[r]
MapRows(B, f) ==
    LET image == {f[r] : r \in Rows(B)}
    IN  [x \in image |-> SumCopies(B, {r \in Rows(B) : f[r] = x})]

\* ALTER TABLE ratings ADD COLUMN rating_type VARCHAR DEFAULT 'overall': the
\* rows the table holds read 'overall' in the new column
AddColumn(B) ==
    MapRows(B, [r \in Rows(B) |-> [r EXCEPT !.rating_type = DefaultRatingType]])

\* the loop over old_ratings, the rows with a rating in [-1, 0, 1]
ConvertRatings(B) ==
    MapRows(B, [r \in Rows(B) |->
                  IF r.rating \in {-1, 0, 1}
                  THEN [r EXCEPT !.rating = new_rating(r.rating), !.rating_type = "overall"]
                  ELSE r])

\* the loop over ratings_without_type, the rows of 1 to 5 stars with no type
TypeRatings(B) ==
    MapRows(B, [r \in Rows(B) |->
                  IF r.rating \in 1..5 /\ r.rating_type \in {PyNone, ""}
                  THEN [r EXCEPT !.rating_type = "overall"]
                  ELSE r])

\* statuses of the "migrate_ratings" response: what the run printed
Migrated == 0
MigrationFailed == 1
MigrationSkipped == 2

\* where a run can raise: before the commit that follows ALTER TABLE, before
\* the commit of the converted values, before the commit of the types
FailPoints == {"", "alter", "convert", "retype"}

\* [schema, ratings, status]: the table after a run that raises at the point
\* fail ("": it does not raise); each commit stays, the rest is rolled back
migrate_ratings(sch, B, fail) ==
    IF check_schema_version(sch)
    THEN [schema |-> sch, ratings |-> B, status |-> MigrationSkipped]
    ELSE LET added     == IF sch # "new" THEN AddColumn(B) ELSE B
             converted == ConvertRatings(added)
             typed     == TypeRatings(converted)
         IN  IF fail = "alter"
             THEN [schema |-> sch, ratings |-> B, status |-> MigrationFailed]
             ELSE IF fail = "convert"
             THEN [schema |-> "new", ratings |-> added, status |-> MigrationFailed]
             ELSE IF fail = "retype"
             THEN [schema |-> "new", ratings |-> converted, status |-> MigrationFailed]
             ELSE [schema |-> "new", ratings |-> typed, status |-> Migrated]

MigrateRatingsRun(fail) ==
    LET done == migrate_ratings(schema, ratings, fail)
    IN  /\ schema' = done.schema
        /\ ratings' = done.ratings
        /\ resp' = Response("migrate_ratings", done.status, fail, PyNone, 0, <<>>, NoStats)
        /\ UNCHANGED <<words, minted, started>>

\* ------------------------------------------------------------- the service
\* what a request in flight holds: its cookie and body, whether another
\* request was waiting when it arrived, and once handled the user it was
\* served as and the cookie its response set
NoLocals == [cookie |-> PyNone, word_id |-> 0, rating |-> 0, rating_type |-> "",
             overlapped |-> FALSE, user_id |-> PyNone, set_cookie |-> PyNone]

NoResponse == Response("none", 0, "", PyNone, 0, <<>>, NoStats)

\* main.py is being imported: init_db() has made the tables of a new database
Init ==
    /\ words = <<>>
    /\ ratings = EmptyBag
    /\ minted = 0
    /\ req = NoRequest
    /\ resp = NoResponse
    /\ pc = [p \in Procs |-> "idle"]
    /\ loc = [p \in Procs |-> NoLocals]
    /\ started = FALSE
    /\ schema = "new"

\* a service that takes requests while main.py is still being imported
Serving_BeforeStartup == TRUE

\* app = FastAPI(...) is made after check_and_migrate_data() has returned:
\* there is no app to route a request to before
Serving == started

\* The service takes one request at a time: a handler is a coroutine with no
\* await in its body, which runs to its end once started.
Rate == \E c \in Cookies(minted), w \in WordIdInputs, v \in RatingInputs,
           t \in RatingTypeInputs :
            /\ Serving /\ req = NoRequest
            /\ rate_word(c, w, v, t)
            /\ req' = Request("rate", c, w, v, t, "", <<>>)
            /\ UNCHANGED <<pc, loc, started, schema>>

Unrate == \E c \in Cookies(minted), w \in WordIdInputs, t \in RatingTypeInputs :
            /\ Serving /\ req = NoRequest
            /\ unrate_word(c, w, t)
            /\ req' = Request("unrate", c, w, 0, t, "", <<>>)
            /\ UNCHANGED <<pc, loc, started, schema>>

GetWord == \E c \in Cookies(minted), s \in WordIdentifiers :
            /\ Serving /\ req = NoRequest
            /\ get_word(c, s)
            /\ req' = Request("word", c, 0, 0, "", s, <<>>)
            /\ UNCHANGED <<pc, loc, started, schema>>

NextWordId == \E c \in Cookies(minted), i \in CurrentIdInputs :
            /\ Serving /\ req = NoRequest
            /\ get_next_word_id(c, i)
            /\ req' = Request("next", c, i, 0, "", "", <<>>)
            /\ UNCHANGED <<pc, loc, started, schema>>

PrevWordId == \E c \in Cookies(minted), i \in CurrentIdInputs :
            /\ Serving /\ req = NoRequest
            /\ get_prev_word_id(c, i)
            /\ req' = Request("prev", c, i, 0, "", "", <<>>)
            /\ UNCHANGED <<pc, loc, started, schema>>

RandomWord == \E c \in Cookies(minted) :
            /\ Serving /\ req = NoRequest
            /\ get_random_word(c)
            /\ req' = Request("random", c, 0, 0, "", "", <<>>)
            /\ UNCHANGED <<pc, loc, started, schema>>

RatedWords == \E c \in Cookies(minted) :
            /\ Serving /\ req = NoRequest
            /\ get_rated_words(c)
            /\ req' = Request("rated", c, 0, 0, "", "", <<>>)
            /\ UNCHANGED <<pc, loc, started, schema>>

Leaderboard ==
            /\ Serving /\ req = NoRequest
            /\ get_leaderboard
            /\ req' = Request("leaderboard", PyNone, 0, 0, "", "", <<>>)
            /\ UNCHANGED <<pc, loc, started, schema>>

\* python migrate_data.py, run beside the service
ReloadCatalog == \E src \in Sources :
            /\ req = NoRequest
            /\ Reload(src)
            /\ req' = Request("reload", PyNone, 0, 0, "", "", src)
            /\ UNCHANGED <<pc, loc, started, schema>>

\* the service process starts: main.py is imported
StartService == \E src \in StartupSources :
            /\ req = NoRequest
            /\ Startup(src)
            /\ req' = Request("startup", PyNone, 0, 0, "", "", src)
            /\ UNCHANGED <<pc, loc>>

\* the response is sent and get_db closes the session: the request is over
EndRequest ==
    /\ req # NoRequest
    /\ req' = NoRequest
    /\ resp' = NoResponse
    /\ UNCHANGED <<words, ratings, minted, pc, loc, started, schema>>

Next ==
    \/ Rate \/ Unrate \/ GetWord \/ RandomWord \/ RatedWords
    \/ NextWordId \/ PrevWordId \/ Leaderboard
    \/ ReloadCatalog \/ StartService \/ EndRequest

Spec == Init /\ [][Next]_vars

\* ------------------------------------------------------------- concurrent requests
\* Several POST /api/rate requests are in flight at once.  The server reads a
\* request and opens its session (get_db) while other requests wait; the body
\* of rate_word is a coroutine with no await, so the event loop runs it from
\* its first query to its commit before it starts another body.
RateArrive(p, cookie, word_id, rating, rating_type) ==
    /\ pc[p] = "idle"
    /\ pc' = [pc EXCEPT ![p] = "pending"]
    /\ loc' = [loc EXCEPT ![p] = [cookie |-> cookie, word_id |-> word_id, rating |-> rating,
                                  rating_type |-> rating_type,
                                  overlapped |-> \E q \in Procs : pc[q] = "pending",
                                  user_id |-> PyNone, set_cookie |-> PyNone]]
    /\ UNCHANGED <<words, ratings, minted, req, resp, started, schema>>

RateHandle(p) ==
    /\ pc[p] = "pending"
    /\ rate_word(loc[p].cookie, loc[p].word_id, loc[p].rating, loc[p].rating_type)
    /\ req' = Request("rate", loc[p].cookie, loc[p].word_id, loc[p].rating,
                      loc[p].rating_type, "", <<>>)
    /\ pc' = [pc EXCEPT ![p] = "handled"]
    /\ loc' = [loc EXCEPT ![p].user_id =
                                IF get_or_create_user_id(loc[p].cookie) = PyNone
                                THEN Uuid4(minted') ELSE loc[p].cookie,
                           ![p].set_cookie = resp'.set_cookie]
    /\ UNCHANGED <<started, schema>>

\* the source file read at startup, and the catalog its load leaves
StartupSource == [i \in 1..MaxWords |-> [Word |-> NameOf[i], Definition |-> "d1"]]
LoadedCatalog == migrate_data(<<>>, StartupSource).words

ConcInit ==
    /\ words = LoadedCatalog
    /\ ratings = EmptyBag
    /\ minted = 0
    /\ req = NoRequest
    /\ resp = NoResponse
    /\ pc = [p \in Procs |-> "idle"]
    /\ loc = [p \in Procs |-> NoLocals]
    /\ started = TRUE
    /\ schema = "new"

\* a client can bring a minted token once the response that set it was sent
IssuedCookies ==
    {PyNone, "", "None"} \cup Tokens
        \cup {loc[q].set_cookie : q \in {r \in Procs : pc[r] = "handled"}}

ConcArrive == \E p \in Procs, c \in IssuedCookies, w \in WordIdInputs, v \in RatingInputs,
                 t \in RatingTypeInputs : RateArrive(p, c, w, v, t)

ConcHandle == \E p \in Procs : RateHandle(p)

ConcNext == ConcArrive \/ ConcHandle

ConcSpec == ConcInit /\ [][ConcNext]_vars

\* ------------------------------------------------------------- a ledger of many users
\* The leaderboard over ledgers that more users have written than the state
\* space of the service above holds: the ledger is given by the votes each
\* word has, each vote the rating of a user of its own.
\* the thumbs up, hyphens and thumbs down a word can have
Tallies == [thumbs_up : {0, 1, 75}, hyphen : {0, 25}, thumbs_down : {0, 1}]

\* the user_id cookie of the i-th user
Voter(i) == "v" \o ToString(i)

\* the rows rate_word has stored for a word with the tally t
VotesOf(word_id, t) ==
    {[user_id |-> Voter(i), word_id |-> word_id, rating_type |-> DefaultRatingType,
      rating |-> IF i <= t.thumbs_up THEN 1
                 ELSE IF i <= t.thumbs_up + t.hyphen THEN 0 ELSE -1] :
        i \in 1..(t.thumbs_up + t.hyphen + t.thumbs_down)}

BuiltLedger(tally) == SetToBag(UNION {VotesOf(w, tally[w]) : w \in DOMAIN tally})

BoardInit ==
    /\ words = LoadedCatalog
    /\ ratings \in {BuiltLedger(tally) : tally \in [1..Len(LoadedCatalog) -> Tallies]}
    /\ minted = 0
    /\ req = NoRequest
    /\ resp = NoResponse
    /\ pc = [p \in Procs |-> "idle"]
    /\ loc = [p \in Procs |-> NoLocals]
    /\ started = TRUE
    /\ schema = "new"

BoardNext == Leaderboard \/ EndRequest

BoardSpec == BoardInit /\ [][BoardNext]_vars

\* ------------------------------------------------------------- the rating migration
\* python migrate_ratings.py, run while the service is down, on a database of
\* the old system: its ratings are thumbs (-1, 0, 1), one for a user and a
\* word at most, in a table made before the rating_type column ("old", the
\* rows have no type) or made by init_db ("new", written by rate_word)
LedgerUsers == Tokens \cup Minted(MaxMint)

OldLedgers(rating_type) ==
    LET pairs == LedgerUsers \X (1..Len(LoadedCatalog))
    IN  UNION {{SetToBag({[user_id |-> p[1], word_id |-> p[2],
                           rating_type |-> rating_type, rating |-> f[p]] : p \in P}) :
                   f \in [P -> {-1, 0, 1}]} : P \in SUBSET pairs}

MigInit ==
    /\ words = LoadedCatalog
    /\ \/ schema = "old" /\ ratings \in OldLedgers(PyNone)
       \/ schema = "new" /\ ratings \in OldLedgers(DefaultRatingType)
    /\ minted = 0
    /\ req = NoRequest
    /\ resp = NoResponse
    /\ pc = [p \in Procs |-> "idle"]
    /\ loc = [p \in Procs |-> NoLocals]
    /\ started = FALSE

MigrateRatings == \E fail \in FailPoints :
            /\ req = NoRequest
            /\ MigrateRatingsRun(fail)
            /\ req' = Request("migrate_ratings", PyNone, 0, 0, "", "", <<>>)
            /\ UNCHANGED <<pc, loc>>

MigNext == MigrateRatings \/ EndRequest

MigSpec == MigInit /\ [][MigNext]_vars

\* ------------------------------------------------------------- properties
\* a cookie that carries no identity: absent, empty, or the text "None"
NoIdentity(cookie) == cookie \in {PyNone, "", "None"}

\* the user the request req acts for: its cookie's token, or the token minted
\* for it by an endpoint that mints
ActingUser ==
    IF ~NoIdentity(req.user_id) THEN req.user_id
    ELSE IF req.op \in {"rate", "word", "random", "rated", "next", "prev"} THEN Uuid4(minted)
    ELSE PyNone

\* the rows of a (user, word id, dimension) triple, and how many there are
TripleRows(B, u, w, d) ==
    {r \in Rows(B) : r.user_id = u /\ r.word_id = w /\ r.rating_type = d}
TripleCount(B, u, w, d) == SumCopies(B, TripleRows(B, u, w, d))

\* the rows of a (word id, dimension) pair
PairRows(B, w, d) == {r \in Rows(B) : r.word_id = w /\ r.rating_type = d}
PairCount(B, w, d) == SumCopies(B, PairRows(B, w, d))

\* the rows outside a triple, each with its number of copies
OtherRecords(B, u, w, d) ==
    [r \in Rows(B) \ TripleRows(B, u, w, d) |-> CopiesIn(r, B)]

CatalogIds == 1..Len(words)

\* C1: in every state reached from the empty ledger by rate, unrate and
\* catalog reload requests served one after the other, the ratings table
\* holds at most one row per (user, word id, dimension).
C1_OneRecordPerTriple ==
    \A u \in AllUsers, w \in WordIdInputs, d \in RatingTypes :
        TripleCount(ratings, u, w, d) <= 1

\* a rate request was served for a triple, and the ledger holds the ratings of
\* two users for that word
C1_Witness ==
    /\ req.op = "rate" /\ resp.status = 200
    /\ TripleCount(ratings, ActingUser, req.word_id, DefaultRatingType) = 1
    /\ \E r \in Rows(ratings) : r.user_id # ActingUser /\ r.word_id = req.word_id

\* C2: two rate requests for the same (user, word id, dimension), with a star
\* value in 1..5 each, one of the four dimensions and a word of the catalog,
\* no record before them, in flight together and handled in either order,
\* leave exactly one record for the triple, holding the value of one of the
\* two.
C2_ConcurrentUpsertsLeaveOneRecord ==
    \A p, q \in Procs :
        ( /\ p # q
          /\ pc[p] = "handled" /\ pc[q] = "handled"
          /\ loc[p].overlapped \/ loc[q].overlapped
          /\ loc[p].user_id = loc[q].user_id
          /\ loc[p].word_id = loc[q].word_id
          /\ loc[p].rating_type = loc[q].rating_type
          /\ loc[p].word_id \in CatalogIds
          /\ loc[p].rating_type \in RatingTypes
          /\ loc[p].rating \in 1..5 /\ loc[q].rating \in 1..5 )
        => /\ TripleCount(ratings, loc[p].user_id, loc[p].word_id, loc[p].rating_type) = 1
           /\ \A r \in TripleRows(ratings, loc[p].user_id, loc[p].word_id, loc[p].rating_type) :
                  r.rating \in {loc[p].rating, loc[q].rating}

\* the record the request req asks to store
RequestedRecord ==
    [user_id |-> ActingUser, word_id |-> req.word_id,
     rating_type |-> req.rating_type, rating |-> req.rating]

\* C3: rating a (user, word, dimension) triple twice with different values
\* overwrites: on a fresh ledger a rate with a value in 1..5 is stored as the
\* one record of its triple and the stats returned count 1 rating (rate 4:
\* 4.0 / 1), and a second rate of the same triple with another value leaves
\* one record, holding the second value, again counted as 1 (then rate 2:
\* 2.0 / 1).
C3_RateTwiceOverwrites ==
    [][( /\ req'.op = "rate"
         /\ req'.word_id \in CatalogIds
         /\ req'.rating \in 1..5
         /\ req'.rating_type \in RatingTypes
         /\ \/ ratings = EmptyBag
            \/ \E v0 \in (1..5) \ {req'.rating} :
                   ratings = One([RequestedRecord' EXCEPT !.rating = v0]) )
       => /\ resp'.status = 200
          /\ ratings' = One(RequestedRecord')
          /\ resp'.stats.total = 1]_vars

\* C4: for an existing word and an identified user, remove(user, word id,
\* dimension) does not fail; afterwards the triple has no record; and when it
\* had none before, the ledger is as it was.
C4_RemoveIsIdempotentDelete ==
    [][( /\ req'.op = "unrate"
         /\ ~NoIdentity(req'.user_id)
         /\ req'.word_id \in CatalogIds
         /\ req'.rating_type \in RatingTypes )
       => /\ resp'.status = 200
          /\ TripleCount(ratings', req'.user_id, req'.word_id, req'.rating_type) = 0
          /\ TripleCount(ratings, req'.user_id, req'.word_id, req'.rating_type) = 0
                => ratings' = ratings]_vars

\* C5: an upsert or a remove for the triple (u, w, d) leaves the records of
\* every other triple as they were: those of the same user and word under
\* another dimension, and those of other users for the same word.
C5_OtherTriplesUnchanged ==
    [][(req'.op \in {"rate", "unrate"} /\ req'.rating_type \in RatingTypes)
       => OtherRecords(ratings', ActingUser', req'.word_id, req'.rating_type)
            = OtherRecords(ratings, ActingUser', req'.word_id, req'.rating_type)]_vars

\* C6: on an existing word, an upsert fails with 400 and leaves the ledger as
\* it was when the value is outside 1..5 or the dimension is not one of the
\* four, and succeeds for every value in 1..5 with one of the four dimensions.
C6_UpsertValidation ==
    [][(req'.op = "rate" /\ req'.word_id \in CatalogIds)
       => IF req'.rating \in 1..5 /\ req'.rating_type \in RatingTypes
          THEN resp'.status = 200
          ELSE resp'.status = 400 /\ ratings' = ratings]_vars

LedgerWordsInCatalog == \A r \in Rows(ratings) : r.word_id \in CatalogIds

\* C7 as stated: upsert and remove both fail with 404 when the word id is not
\* in the catalog and leave the ledger as it was; every word id in the ledger
\* is the id of a catalog entry.
C7_UnknownWordIs404 ==
    [][/\ (req'.op \in {"rate", "unrate"} /\ req'.word_id \notin CatalogIds)
            => resp'.status = 404 /\ ratings' = ratings
       /\ LedgerWordsInCatalog']_vars

\* C7 as amended: upsert, and remove by a request that carries an identity,
\* fail with 404 when the word id is not in the catalog; a remove that carries
\* no identity fails with 401; in each case the ledger is as it was; every
\* word id in the ledger is the id of a catalog entry.
C7_UnknownWordRejected ==
    [][/\ (req'.op \in {"rate", "unrate"} /\ req'.word_id \notin CatalogIds)
            => /\ resp'.status =
                     IF req'.op = "unrate" /\ NoIdentity(req'.user_id) THEN 401 ELSE 404
               /\ ratings' = ratings
       /\ LedgerWordsInCatalog']_vars

\* a remove by an identified user for a word id outside the catalog was
\* answered 404 while the ledger holds ratings
C7_Witness ==
    /\ req.op = "unrate" /\ ~NoIdentity(req.user_id)
    /\ req.word_id \notin CatalogIds
    /\ resp.status = 404
    /\ ratings # EmptyBag

\* C8: every stored rating has a star value in 1..5 and one of the four
\* dimensions.
C8_StoredValuesInRange ==
    \A r \in Rows(ratings) : r.rating \in 1..5 /\ r.rating_type \in RatingTypes

\* C9: a delete that carries no identity (no cookie, an empty one, or the text
\* "None") fails with 401, mints no identity, sets no cookie and leaves the
\* ledger as it was, whether or not the word id is in the catalog.
C9_DeleteWithoutIdentityIs401 ==
    [][(req'.op = "unrate" /\ NoIdentity(req'.user_id))
       => /\ resp'.status = 401
          /\ minted' = minted
          /\ resp'.set_cookie = PyNone
          /\ ratings' = ratings]_vars

\* a delete with the cookie text "None" for a word id outside the catalog was
\* answered 401 while the ledger holds ratings
C9_Witness ==
    /\ req.op = "unrate" /\ req.user_id = "None"
    /\ req.word_id \notin CatalogIds
    /\ resp.status = 401
    /\ ratings # EmptyBag

\* C10: the stats of a response are those of the ledger at that time: the
\* count is the number of ledger records of the word in its dimension, and the
\* user's own value is the value of the user's record for the word, or none.
\* The handlers keep one dimension, the column default: the ledger holds no
\* record of the word under another one.
C10_StatsMatchLedger ==
    /\ (req.op \in {"rate", "unrate", "word"} /\ resp.status = 200)
         => /\ resp.stats.total = PairCount(ratings, resp.id, DefaultRatingType)
            /\ \A d \in RatingTypes \ {DefaultRatingType} : PairCount(ratings, resp.id, d) = 0
    /\ (req.op = "word" /\ resp.status = 200)
         => LET mine == TripleRows(ratings, ActingUser, resp.id, DefaultRatingType)
            IN  IF mine = {} THEN resp.user_rating = <<>>
                ELSE \A r \in mine : resp.user_rating = <<r.rating>>

\* a word's stats were read with two ratings in the ledger, one the reader's own
C10_Witness ==
    /\ req.op = "word" /\ resp.status = 200
    /\ resp.stats.total = 2
    /\ resp.user_rating # <<>>

\* sets of word ids a words table can hold: one id, all ids, ids with gaps
IdSets == (SUBSET (1..(MaxWords + 2))) \ {{}}

\* C18: for every id of a non-empty catalog, next(prev(id)) = id and
\* prev(next(id)) = id, also at the first and the last id, where the two wrap
\* around, for a catalog whose ids have gaps and for a catalog of one word;
\* and the id a next or prev request returns for a catalog id leads back to
\* that id.
C18_NextPrevRoundTrip ==
    /\ \A ids \in IdSets : \A id \in ids :
          /\ prev_word_id(ids, id) # {} /\ next_word_id(ids, id) # {}
          /\ \A p \in prev_word_id(ids, id) : next_word_id(ids, p) = {id}
          /\ \A n \in next_word_id(ids, id) : prev_word_id(ids, n) = {id}
    /\ (req.op = "prev" /\ req.word_id \in CatalogIds)
          => resp.status = 200 /\ next_word_id(CatalogIds, resp.id) = {req.word_id}
    /\ (req.op = "next" /\ req.word_id \in CatalogIds)
          => resp.status = 200 /\ prev_word_id(CatalogIds, resp.id) = {req.word_id}

\* a prev request for the first id of a catalog of two words or more was
\* answered with the last id
C18_Witness ==
    /\ req.op = "prev" /\ req.word_id = 1
    /\ Len(words) >= 2
    /\ resp.status = 200 /\ resp.id = Len(words)

\* C19: next returns the smallest catalog id greater than the current id, or
\* the first catalog id when none is greater; prev returns the largest catalog
\* id smaller than the current id, or the last catalog id when none is
\* smaller; the id returned is in the catalog, also when the current id is
\* not; the answer is 404 "No words found" when the catalog is empty and only
\* then.
C19_NextPrevInCatalog ==
    /\ req.op \in {"next", "prev"} =>
          IF CatalogIds = {}
          THEN resp.status = 404 /\ resp.detail = "No words found"
          ELSE resp.status = 200 /\ resp.id \in CatalogIds
    /\ (req.op = "next" /\ CatalogIds # {}) =>
          IF \E i \in CatalogIds : i > req.word_id
          THEN /\ resp.id > req.word_id
               /\ \A i \in CatalogIds : i > req.word_id => resp.id <= i
          ELSE \A i \in CatalogIds : resp.id <= i
    /\ (req.op = "prev" /\ CatalogIds # {}) =>
          IF \E i \in CatalogIds : i < req.word_id
          THEN /\ resp.id < req.word_id
               /\ \A i \in CatalogIds : i < req.word_id => resp.id >= i
          ELSE \A i \in CatalogIds : resp.id >= i

\* a next request for an id above every catalog id was answered with the
\* first id of a catalog of two words or more
C19_Witness ==
    /\ req.op = "next"
    /\ Len(words) >= 2 /\ req.word_id > Len(words)
    /\ resp.status = 200 /\ resp.id = 1

\* the positions of the source entries that carry a name
EntriesNamed(words_data, name) == {k \in 1..Len(words_data) : words_data[k].Word = name}

\* C20: a catalog reload keeps every pre-existing entry under its id with its
\* name and keeps every ledger record; when the load commits, an entry whose
\* name is in the source holds the fields of the last source entry of that
\* name, and an entry whose name is not in the source holds its fields as
\* before.
C20_ReloadPreservesIdsAndRatings ==
    [][req'.op = "reload"
       => /\ ratings' = ratings
          /\ Len(words') >= Len(words)
          /\ \A i \in 1..Len(words) :
                /\ words'[i].word = words[i].word
                /\ LET named == EntriesNamed(req'.words_data, words[i].word)
                   IN  words'[i].definition =
                         IF resp'.status = 0 /\ named # {}
                         THEN req'.words_data[Max(named)].Definition
                         ELSE words[i].definition]_vars

\* a load committed whose source names a word that has a rating
C20_Witness ==
    /\ req.op = "reload" /\ resp.status = 0
    /\ \E r \in Rows(ratings) :
          /\ r.word_id \in CatalogIds
          /\ EntriesNamed(req.words_data, words[r.word_id].word) # {}

\* the stats of a response report the average a, in tenths of a star
ReportsAverage(stats, a) == "average" \in DOMAIN stats /\ stats.average = a

\* the sum of the values of the rows S of the bag B
RECURSIVE SumValues(_, _)
SumValues(B, S) ==
    IF S = {} THEN 0
    ELSE LET r == CHOOSE r \in S : TRUE
         IN  r.rating * CopiesIn(r, B) + SumValues(B, S \ {r})

\* sum / count in tenths, rounded to the nearest tenth
MeanTenths(sum, count) == (20 * sum + count) \div (2 * count)

\* C11: for a word with no rating, the stats of the detail view report count
\* 0, average 0.0 and no rating of the requesting user, whoever asks.
C11_ZeroRatingsStats ==
    ( /\ req.op = "word" /\ resp.status = 200
      /\ \A r \in Rows(ratings) : r.word_id # resp.id )
    => /\ resp.stats.total = 0
       /\ ReportsAverage(resp.stats, 0)
       /\ resp.user_rating = <<>>

\* C12: for a word with at least one rating, the stats of a response report
\* as the average the sum of the values of the word's ledger records divided
\* by their number, rounded to one decimal place.
C12_MeanIsArithmeticMean ==
    ( /\ req.op \in {"word", "rate", "unrate"} /\ resp.status = 200
      /\ PairCount(ratings, resp.id, DefaultRatingType) >= 1 )
    => ReportsAverage(resp.stats,
                      MeanTenths(SumValues(ratings, PairRows(ratings, resp.id, DefaultRatingType)),
                                 PairCount(ratings, resp.id, DefaultRatingType)))

\* the ledger records of a word, their number, and their mean as a fraction
\* (0 for a word without ratings)
WordRows(w) == {r \in Rows(ratings) : r.word_id = w}
WordCount(w) == SumCopies(ratings, WordRows(w))
WordMean(w) ==
    IF WordCount(w) = 0 THEN [num |-> 0, den |-> 1]
    ELSE [num |-> SumValues(ratings, WordRows(w)), den |-> WordCount(w)]

\* C13: the leaderboard is sorted descending by (average, count) of each
\* word's ratings: of two adjacent entries the earlier has the strictly higher
\* mean, or the same mean and a count greater than or equal to the later's.
C13_SortedByMeanThenCount ==
    req.op = "leaderboard" =>
        \A p \in 1..(Len(resp.entries) - 1) :
            LET a == resp.entries[p].word_id
                b == resp.entries[p + 1].word_id
            IN  \/ ScoreLess(WordMean(b), WordMean(a))
                \/ /\ ~ScoreLess(WordMean(a), WordMean(b))
                   /\ WordCount(a) >= WordCount(b)

\* C15: in every leaderboard no word without ratings comes before a word that
\* has at least one rating.
C15_UnratedWordsLast ==
    req.op = "leaderboard" =>
        \A p, q \in 1..Len(resp.entries) :
            p < q => ~( /\ WordCount(resp.entries[p].word_id) = 0
                        /\ WordCount(resp.entries[q].word_id) >= 1 )

\* a leaderboard whose first entry is a word rated thumbs down only and whose
\* last entry is a word without ratings that precedes it in the table
C15_Witness ==
    /\ req.op = "leaderboard" /\ Len(resp.entries) >= 2
    /\ resp.entries[1].score < 0
    /\ resp.entries[Len(resp.entries)].total_ratings = 0
    /\ resp.entries[Len(resp.entries)].word_id < resp.entries[1].word_id

\* C16: the leaderboard holds every catalog word exactly once, rated or not,
\* under its name, and the total of each entry is the count the stats of the
\* detail view report for the word in the same ledger state, the number of the
\* word's ledger records.
C16_LeaderboardCoversCatalog ==
    req.op = "leaderboard" =>
        /\ Len(resp.entries) = Len(words)
        /\ {resp.entries[p].word_id : p \in 1..Len(resp.entries)} = CatalogIds
        /\ \A p \in 1..Len(resp.entries) :
              LET e == resp.entries[p]
              IN  /\ e.word = words[e.word_id].word
                  /\ e.total_ratings = get_rating_stats(ratings, e.word_id).total
                  /\ e.total_ratings = WordCount(e.word_id)

\* a leaderboard of a catalog with a rated word and a word without ratings
C16_Witness ==
    /\ req.op = "leaderboard" /\ Len(resp.entries) >= 2
    /\ \E p, q \in 1..Len(resp.entries) :
          resp.entries[p].total_ratings >= 1 /\ resp.entries[q].total_ratings = 0

\* C17: the leaderboard is a function of the catalog and the ledger: the
\* handler can return one sequence only for them, also for words that tie on
\* score and on rating count, which keep their table order.
C17_LeaderboardDeterministic ==
    req.op = "leaderboard" =>
        /\ SortLeaderboard(LeaderboardRows(words, ratings)) = {resp.entries}
        /\ \A p \in 1..(Len(resp.entries) - 1) :
              LET a == resp.entries[p]
                  b == resp.entries[p + 1]
              IN  ( /\ a.thumbs_up = b.thumbs_up /\ a.thumbs_down = b.thumbs_down
                    /\ a.total_ratings = b.total_ratings )
                  => a.word_id < b.word_id

\* a leaderboard with two rated words that tie on score and on rating count
C17_Witness ==
    /\ req.op = "leaderboard" /\ Len(resp.entries) >= 2
    /\ resp.entries[1].total_ratings >= 1
    /\ resp.entries[1].total_ratings = resp.entries[2].total_ratings
    /\ resp.entries[1].thumbs_up = resp.entries[2].thumbs_up
    /\ resp.entries[1].thumbs_down = resp.entries[2].thumbs_down

RECURSIVE SumStars(_, _)
SumStars(B, S) ==
    IF S = {} THEN 0
    ELSE LET r == CHOOSE r \in S : TRUE
         IN  new_rating(r.rating) * CopiesIn(r, B) + SumStars(B, S \ {r})

\* the word has count ratings whose stars average tenths / 10
StarAverageIs(w, tenths, count) ==
    /\ WordCount(w) = count
    /\ 10 * SumStars(ratings, WordRows(w)) = tenths * count

\* the position of a word in a leaderboard
PositionOf(entries, w) == CHOOSE p \in 1..Len(entries) : entries[p].word_id = w

\* C14: a word A with average 5.0 from 1 rating and a word B with average 4.5
\* from 100 ratings: the leaderboard lists B above A.  The ledger holds thumbs,
\* read as stars the way migrate_ratings.py turns them into stars.
C14_ManyRatingsOutrankOne ==
    req.op = "leaderboard" =>
        \A a, b \in CatalogIds :
            (StarAverageIs(a, 50, 1) /\ StarAverageIs(b, 45, 100))
            => PositionOf(resp.entries, b) < PositionOf(resp.entries, a)

\* C21: no step of the program removes a catalog entry or moves it to another
\* id, a load whose source omits the entry included, and after every step
\* each ledger record is still on a word of the catalog.
C21_ReloadNeverRemoves ==
    [][/\ \A i \in 1..Len(words) : i <= Len(words') /\ words'[i].word = words[i].word
       /\ LedgerWordsInCatalog => LedgerWordsInCatalog']_vars

\* a load committed whose source does not name a word that has a rating
C21_Witness ==
    /\ req.op = "reload" /\ resp.status = 0
    /\ \E r \in Rows(ratings) :
          /\ r.word_id \in CatalogIds
          /\ EntriesNamed(req.words_data, words[r.word_id].word) = {}

\* a run of the load: python migrate_data.py, or the load of the startup check
LoadRan(rq, rs) ==
    \/ rq.op = "reload"
    \/ rq.op = "startup" /\ rs.status # LoadSkipped
LoadCommitted(rq, rs) ==
    \/ rq.op = "reload" /\ rs.status = 0
    \/ rq.op = "startup" /\ rs.status = Loaded

\* C22: a load that fails leaves the catalog exactly as it was before; a load
\* that succeeds leaves every name of the source in the catalog once, with the
\* definition of the last source entry of that name, and adds no other entry.
C22_ReloadAllOrNothing ==
    [][LoadRan(req', resp')
       => IF LoadCommitted(req', resp')
          THEN /\ \A k \in 1..Len(req'.words_data) :
                     LET name == req'.words_data[k].Word
                     IN  name # "" =>
                           \E i \in 1..Len(words') :
                              /\ words'[i].word = name
                              /\ words'[i].definition =
                                   req'.words_data[Max(EntriesNamed(req'.words_data, name))].Definition
                              /\ \A j \in 1..Len(words') : words'[j].word = name => j = i
               /\ \A i \in (Len(words) + 1)..Len(words') :
                     EntriesNamed(req'.words_data, words'[i].word) # {}
          ELSE words' = words]_vars

\* a load failed whose source, before the entry it failed on, changes the
\* definition of a word of the catalog
C22_Witness ==
    /\ req.op = "reload" /\ resp.status = 1
    /\ \E i \in 1..Len(words) :
          /\ EntriesNamed(req.words_data, words[i].word) # {}
          /\ req.words_data[1].Word = words[i].word
          /\ req.words_data[1].Definition # words[i].definition

\* C27: a load whose source lists a name more than once succeeds, and leaves
\* exactly one catalog entry of that name, which holds the definition of the
\* last source entry of the name.
C27_RepeatedNameUpserts ==
    [][\A name \in Names :
          (LoadRan(req', resp') /\ Cardinality(EntriesNamed(req'.words_data, name)) > 1)
          => /\ LoadCommitted(req', resp')
             /\ Cardinality({i \in 1..Len(words') : words'[i].word = name}) = 1
             /\ \A i \in 1..Len(words') :
                   words'[i].word = name
                   => words'[i].definition =
                        req'.words_data[Max(EntriesNamed(req'.words_data, name))].Definition]_vars

\* the word ids for which the user u has a record of the dimension d
RatedIn(B, u, d) == {w \in WordIdInputs : TripleCount(B, u, w, d) > 0}

\* C24: the list of rated word ids a user is given holds no id twice and
\* holds exactly the words for which the user has an 'overall' record, so no
\* word of another user only; and a rating the user gives in a dimension other
\* than 'overall' does not change the list the user would be given.
C24_RatedIdsAreOverallRated ==
    [][/\ req'.op = "rated"
            => LET l == resp'.rated_word_ids
               IN  /\ \A j, k \in DOMAIN l : l[j] = l[k] => j = k
                   /\ {l[k] : k \in DOMAIN l} = RatedIn(ratings', ActingUser', "overall")
       /\ (req'.op = "rate" /\ req'.rating_type # "overall")
            => RatedIdLists(ratings', ActingUser') = RatedIdLists(ratings, ActingUser')]_vars

\* C25: the random word given to a user is a catalog word and, while some
\* catalog word is outside the set of words the user has rated, none of that
\* set; the answer is 404 exactly when the catalog is empty, so a user who has
\* rated the whole catalog is given some word of it.
C25_RandomAvoidsRated ==
    req.op = "random"
    => LET rated == RatedIn(ratings, ActingUser, "overall")
       IN  /\ resp.status = 404 <=> CatalogIds = {}
           /\ resp.status # 404
                => /\ resp.status = 200
                   /\ resp.id \in CatalogIds
                   /\ CatalogIds \ rated # {} => resp.id \notin rated

\* a user who has rated one of two words is given the other
C25_Witness ==
    /\ req.op = "random" /\ resp.status = 200
    /\ Len(words) = 2
    /\ RatedIn(ratings, ActingUser, "overall") = CatalogIds \ {resp.id}

\* the operations that resolve the identity of the request
IdentityOps == {"rate", "unrate", "word", "random", "rated", "next", "prev"}

\* the step serves its request as the user t: the rows it writes or deletes
\* are rows of t, a rating it stores is a row of t, and the rating and the
\* rated words it reports are those of t
ServedAs(t) ==
    /\ \A r \in Rows(ratings) \cup Rows(ratings') :
          CopiesIn(r, ratings) # CopiesIn(r, ratings') => r.user_id = t
    /\ (req'.op = "rate" /\ resp'.status = 200)
          => SumCopies(ratings', UserWordRows(ratings', t, req'.word_id)) > 0
    /\ (req'.op \in {"word", "random"} /\ resp'.status = 200)
          => resp'.user_rating \in UserRating(ratings', t, resp'.id)
    /\ req'.op = "rated" => resp'.rated_word_ids \in RatedIdLists(ratings', t)

\* C26 as stated: a request with a token is served as that token, mints
\* nothing and sets no cookie; a request without one mints exactly one token,
\* sets a cookie that carries it and is served as the minted token.
C26_IdentityResolution ==
    [][req'.op \in IdentityOps
       => IF ~NoIdentity(req'.user_id)
          THEN /\ minted' = minted
               /\ resp'.set_cookie = PyNone
               /\ ServedAs(req'.user_id)
          ELSE /\ minted' = minted + 1
               /\ resp'.set_cookie = Uuid4(minted')
               /\ ServedAs(Uuid4(minted'))]_vars

\* C26 amended: as stated for a request with a token; without one, remove
\* mints nothing, sets no cookie and answers 401 with the ledger unchanged,
\* and every other operation mints exactly one token and is served as the
\* minted token, its response setting the cookie that carries it when the
\* request succeeds.
C26_IdentityResolutionOfServed ==
    [][req'.op \in IdentityOps
       => IF ~NoIdentity(req'.user_id)
          THEN /\ minted' = minted
               /\ resp'.set_cookie = PyNone
               /\ ServedAs(req'.user_id)
          ELSE IF req'.op = "unrate"
          THEN /\ minted' = minted
               /\ resp'.set_cookie = PyNone
               /\ resp'.status = 401
               /\ ratings' = ratings
          ELSE /\ minted' = minted + 1
               /\ resp'.status = 200 => resp'.set_cookie = Uuid4(minted')
               /\ resp'.set_cookie \in {PyNone, Uuid4(minted')}
               /\ ServedAs(Uuid4(minted'))]_vars

\* a rating stored for a request that came without a token
C26_Witness ==
    /\ req.op = "rate" /\ NoIdentity(req.user_id) /\ resp.status = 200
    /\ resp.set_cookie = Uuid4(minted)
    /\ SumCopies(ratings, UserWordRows(ratings, Uuid4(minted), req.word_id)) = 1

\* C30: the startup check runs the load exactly when the words table is
\* empty; when the table holds a word, or the load fails, the catalog after
\* the check is the catalog before it (empty when the load failed), and in
\* every case the service has started.
C30_StartupLoadsOnlyWhenEmpty ==
    [][req'.op = "startup"
       => /\ started'
          /\ resp'.status = LoadSkipped <=> Len(words) > 0
          /\ resp'.status \in {LoadSkipped, LoadFailed} => words' = words
          /\ resp'.status = LoadFailed => words' = <<>>
          /\ resp'.status = Loaded => words' = migrate_data(<<>>, req'.words_data).words]_vars

\* the startup check has swallowed a load that failed: the service has started
\* and its catalog is empty
C30_Witness ==
    /\ req.op = "startup" /\ resp.status = LoadFailed
    /\ started /\ words = <<>>

\* the operations a client asks for over HTTP
HttpOps == IdentityOps \cup {"leaderboard"}

\* C23: a request is handled only once the startup check has returned; the
\* step in which the service starts is the startup check, which leaves the
\* catalog as it was or, on an empty table, as the whole load of its source
\* leaves it; a started service stays started, and no request changes the
\* catalog it reads.
C23_StartupLoadBeforeRequests ==
    [][/\ req'.op \in HttpOps => started /\ words' = words
       /\ started => started'
       /\ (~started /\ started')
            => /\ req'.op = "startup"
               /\ \/ words' = words /\ resp'.status # Loaded
                  \/ /\ words = <<>> /\ resp'.status = Loaded
                     /\ migrate_data(<<>>, req'.words_data).ok
                     /\ words' = migrate_data(<<>>, req'.words_data).words]_vars

\* the first request after a startup load of two words is given one of them
C23_Witness ==
    /\ started /\ req.op = "random" /\ resp.status = 200
    /\ Len(words) = 2 /\ ratings = EmptyBag /\ minted = 0

\* the fixed mapping of the old ratings to stars
StarsOf == (-1 :> 1) @@ (0 :> 3) @@ (1 :> 5)

\* the rows of a user and a word with a value, whatever their dimension
ValueCount(B, u, w, v) ==
    SumCopies(B, {r \in Rows(B) : r.user_id = u /\ r.word_id = w /\ r.rating = v})

\* the ledger holds old three-state ratings only
OldSystemLedger(B) == \A r \in Rows(B) : r.rating \in {-1, 0, 1}

\* the ledger after is the ledger before with each value mapped to its stars
\* under the same user and word, every record 'overall', none more or less
ConvertedFrom(before, after) ==
    /\ \A r \in Rows(after) : r.rating \in {1, 3, 5} /\ r.rating_type = "overall"
    /\ BagCardinality(after) = BagCardinality(before)
    /\ \A u \in LedgerUsers, w \in 1..Len(words), v \in {-1, 0, 1} :
          ValueCount(after, u, w, StarsOf[v]) = ValueCount(before, u, w, v)

\* C28 as stated: after a run of the migration that does not fail on a ledger
\* of old three-state ratings, every record has 1, 3 or 5 stars by the mapping
\* -1 -> 1, 0 -> 3, 1 -> 5 and the dimension 'overall', under its user and
\* word, and the ledger has as many records as before.
C28_MigrationConverts ==
    [][(/\ req'.op = "migrate_ratings"
        /\ resp'.status # MigrationFailed
        /\ OldSystemLedger(ratings))
       => ConvertedFrom(ratings, ratings')]_vars

\* C28 amended: the same of a run that the schema check does not skip, which
\* is a run on a ratings table that has no rating_type column.
C28_UnskippedMigrationConverts ==
    [][(/\ req'.op = "migrate_ratings"
        /\ resp'.status # MigrationFailed
        /\ schema # "new"
        /\ OldSystemLedger(ratings))
       => /\ resp'.status = Migrated
          /\ schema' = "new"
          /\ ConvertedFrom(ratings, ratings')]_vars

\* a run has converted a ledger that held a -1, a 0 and a 1
C28_Witness ==
    /\ req.op = "migrate_ratings" /\ resp.status = Migrated
    /\ \A v \in {1, 3, 5} : \E r \in Rows(ratings) : r.rating = v

\* C29: a run of the migration on a table that has the rating_type column,
\* as every run after a completed run is and every run after a run that
\* failed once the column was added, is skipped and changes no rating.
C29_SecondRunChangesNothing ==
    [][(req'.op = "migrate_ratings" /\ schema = "new")
       => /\ resp'.status = MigrationSkipped
          /\ ratings' = ratings
          /\ schema' = schema]_vars

\* a run is skipped on a converted ledger that holds a 1 star and a 5 stars
C29_Witness ==
    /\ req.op = "migrate_ratings" /\ resp.status = MigrationSkipped
    /\ \E r \in Rows(ratings) : r.rating = 1
    /\ \E r \in Rows(ratings) : r.rating = 5
====
